---- MODULE Spec2Model ----
(***************************************************************************)
(* Model of git_incremental_deploy.py: the lock / validate / deploy        *)
(* protocol that one orchestrator run (or two interleaved runs) drives     *)
(* over a list of target directories.  One action per transport call.     *)
(* Transport calls fail where the code distinguishes the outcome:         *)
(* connect, the write of the lock marker, and the calls of deploy()       *)
(* (its copies, renames, writes and removals).                             *)
(***************************************************************************)
EXTENDS Integers, Sequences, FiniteSets, TLC

(* ------------------------------------------------------------------ *)
(* Bounds                                                               *)
(* ------------------------------------------------------------------ *)
\* Target directories of the single-run specification.
NumTargets == 3
\* Target directories two concurrent runs are configured with.
NumShared == 2

Targets == 1..NumTargets
\* Orchestrator processes.
Runs == {"p1", "p2"}

(* ------------------------------------------------------------------ *)
(* The revision provider (GitPython) and the source working tree        *)
(* ------------------------------------------------------------------ *)
Paths == {"a", "old", "x", "y", "z"}
NL == "\n"

\* Two revisions; HEAD is the newer one and is what is checked out.
R1 == "R1"
R2 == "R2"
Revs == {R1, R2}
HEAD == R2
\* "no commit object": None for Directory.commit, and the exception that
\* repo.commit raises for a name it cannot resolve.
NoCommit == "None"

\* commit.hexsha
Hex(r) == IF r = R1 THEN <<"1", "a", "2", "b", "3">> ELSE <<"2", "c", "4", "d", "5">>

\* File contents are opaque values; NoFile = the file does not exist.
NoFile == "absent"
Truncated == "empty"
EmptyDir == [p \in Paths |-> NoFile]

\* Files tracked at each revision, with their contents.
TreeOf(r) ==
  IF r = R1 THEN [p \in Paths |-> CASE p = "a" -> "a@R1" [] p = "old" -> "old@R1" [] p = "x" -> "xy" [] OTHER -> NoFile]
  ELSE [p \in Paths |-> CASE p = "a" -> "a@R2" [] p = "y" -> "xy" [] OTHER -> NoFile]

\* The checkout at config.path: files are copied from here, and
\* "git ls-files" lists the index of this checkout.
WorkTree == TreeOf(HEAD)

LsFiles == {p \in Paths : WorkTree[p] # NoFile}

\* Rename detection (GitPython passes -M to git diff).
Renames(from, to) ==
  IF from = R1 /\ to = R2 THEN {<<"x", "y">>}
  ELSE IF from = R2 /\ to = R1 THEN {<<"y", "x">>}
  ELSE {}

\* self.commit.diff(commit): the entries deploy_diff iterates over.
\* kind "D" = deleted_file, "R" = rename_from/rename_to, "C" = anything else.
Diff(from, to) ==
  LET ren == Renames(from, to)
      srcs == {e[1] : e \in ren}
      dsts == {e[2] : e \in ren}
  IN  {[kind |-> "R", a |-> e[1], b |-> e[2]] : e \in ren}
      \cup {[kind |-> "D", a |-> p, b |-> p] :
              p \in {q \in Paths \ srcs : TreeOf(from)[q] # NoFile /\ TreeOf(to)[q] = NoFile}}
      \cup {[kind |-> "C", a |-> p, b |-> p] :
              p \in {q \in Paths \ dsts : TreeOf(to)[q] # NoFile /\ TreeOf(to)[q] # TreeOf(from)[q]}}

\* g.ls_files().split("\n") turned into copy work items.
TreeEntries == {[kind |-> "C", a |-> p, b |-> p] : p \in LsFiles}

IsPrefix(s, t) == Len(s) <= Len(t) /\ SubSeq(t, 1, Len(s)) = s

\* Names the repository knows besides hex ids: one branch "r" at R1.
RefName == <<"r">>
BadName == <<"q">>
NoneId == <<"None">>

\* repo.commit(rev): NoCommit stands for the exception GitPython raises when
\* the name cannot be resolved; a hex prefix of at least four characters
\* that matches exactly one commit resolves to it.
Resolve(s) ==
  IF s = RefName THEN R1
  ELSE LET m == {r \in Revs : IsPrefix(s, Hex(r))}
       IN  IF Len(s) >= 4 /\ Cardinality(m) = 1 THEN CHOOSE r \in m : TRUE ELSE NoCommit

\* contents[:-1]
StripLast(s) == IF Len(s) = 0 THEN s ELSE SubSeq(s, 1, Len(s) - 1)

(* ------------------------------------------------------------------ *)
(* State                                                                *)
(* ------------------------------------------------------------------ *)
Absent == <<"ABSENT">>

VARIABLES
  active,               \* the orchestrator processes that exist
  ndirs,                \* len(config.dirs); config.dirs are the targets 1..ndirs
  mode,                 \* Directory.connection_mode per target: "LOCAL" (None) or "FTP"
  lockFile,             \* .git_lock per target: "none", "pre" (there before), or the run that wrote it
  commitFile,           \* .git_commit per target: Absent or its contents
  files,                \* deployed files per target: path -> contents
  initial,              \* the targets as they were before any run started
  hard,                 \* "h" in flags
  commit_id,            \* commit_id after argument parsing
  pc,                   \* where each run is
  idx,                  \* loop position of each run
  locked_dirs,
  already_locked_dirs,
  cannot_lock,
  dirs_missing_commit,
  commit,               \* the resolved desired commit (NoCommit before resolution)
  dir_commit,           \* Directory.commit of each run's Directory objects (NoCommit = None)
  todo,                 \* entries of the current deploy not yet applied
  del,                  \* the delete_file call in progress
  abort_why,            \* which phase called abort()
  message,              \* the message handed to abort(), one line per element
  status,               \* process exit status, -1 while running
  outcome,              \* how the run ended
  deploy_called,        \* targets on which deploy() was entered
  deploy_done,          \* targets on which deploy() returned True
  deploy_failed         \* targets on which deploy() raised

fs == <<lockFile, commitFile, files>>
cfg == <<active, ndirs, mode, initial, hard, commit_id>>
lists == <<locked_dirs, already_locked_dirs, cannot_lock, dirs_missing_commit>>
depl == <<deploy_called, deploy_done, deploy_failed>>
ending == <<status, outcome>>
vars == <<fs, cfg, lists, depl, ending, pc, idx, commit, dir_commit, todo, del, abort_why, message>>

LOCK_FILE == ".git_lock"
NoDel == [t |-> 0, f |-> "", ret |-> ""]

\* What a target may look like before a run.
Profiles ==
  { [commit |-> Absent, files |-> EmptyDir],
    [commit |-> Hex(R1), files |-> [TreeOf(R1) EXCEPT !["z"] = "extra", !["old"] = NoFile]],
    [commit |-> Hex(R1) \o <<NL>>, files |-> TreeOf(R1)],
    [commit |-> Hex(R2) \o <<NL>>, files |-> [TreeOf(R2) EXCEPT !["z"] = "extra"]],
    [commit |-> <<"z", "z", "z", "z", NL>>, files |-> TreeOf(R1)] }

InitRun(rs) ==
  /\ active = rs
  /\ pc = [r \in Runs |-> IF r \in rs THEN "lock_connect" ELSE "idle"]  \* "idle": never started
  /\ idx = [r \in Runs |-> 1]
  /\ locked_dirs = [r \in Runs |-> <<>>]
  /\ already_locked_dirs = [r \in Runs |-> <<>>]
  /\ cannot_lock = [r \in Runs |-> <<>>]
  /\ dirs_missing_commit = [r \in Runs |-> <<>>]
  /\ commit = [r \in Runs |-> NoCommit]
  /\ dir_commit = [r \in Runs |-> [t \in Targets |-> NoCommit]]
  /\ todo = [r \in Runs |-> {}]
  /\ del = [r \in Runs |-> NoDel]
  /\ abort_why = [r \in Runs |-> ""]
  /\ message = [r \in Runs |-> <<>>]
  /\ status = [r \in Runs |-> -1]
  /\ outcome = [r \in Runs |-> "running"]
  /\ deploy_called = [r \in Runs |-> {}]
  /\ deploy_done = [r \in Runs |-> {}]
  /\ deploy_failed = [r \in Runs |-> {}]

\* config.dirs of the run(s).
Dirs == 1..ndirs

\* The first n targets are configured, all of them over the same
\* transport; a directory that is not configured is a plain empty one and
\* stays so.
InitTargets(n, profiles, locks) ==
  /\ ndirs = n
  /\ \E m \in {"LOCAL", "FTP"} : mode = [t \in Targets |-> IF t <= n THEN m ELSE "LOCAL"]
  /\ lockFile \in [Targets -> locks]
  /\ \E prof \in [Targets -> profiles] :
       /\ commitFile = [t \in Targets |-> prof[t].commit]
       /\ files = [t \in Targets |-> prof[t].files]
  /\ \A t \in Targets \ (1..n) :
       lockFile[t] = "none" /\ commitFile[t] = Absent /\ files[t] = EmptyDir
  /\ initial = [lock |-> lockFile, commit |-> commitFile, files |-> files]

\* One orchestrator run.  A target that somebody else holds locked is one
\* deployed at R1; the run reads nothing of it but the lock marker.
Init ==
  /\ InitTargets(NumTargets, Profiles, {"none", "pre"})
  /\ \A t \in Targets : lockFile[t] = "pre" => commitFile[t] = Hex(R1) \o <<NL>>
  /\ hard \in [Runs -> BOOLEAN]
  /\ hard["p2"] = FALSE
  /\ commit_id \in [Runs -> {NoneId, RefName, BadName}]
  /\ commit_id["p2"] = NoneId
  /\ InitRun({"p1"})

(* ------------------------------------------------------------------ *)
(* Helpers                                                              *)
(* ------------------------------------------------------------------ *)
\* An uncaught exception ends the process with a traceback, status 1.
Crash(r, why) ==
  /\ pc' = [pc EXCEPT ![r] = "ended"]
  /\ status' = [status EXCEPT ![r] = 1]
  /\ outcome' = [outcome EXCEPT ![r] = why]

\* exit() without an argument.
Exit(r, why) ==
  /\ pc' = [pc EXCEPT ![r] = "ended"]
  /\ status' = [status EXCEPT ![r] = 0]
  /\ outcome' = [outcome EXCEPT ![r] = why]

\* Next iteration of "for target_dir in config.dirs" or the code after it.
LoopNext(r, body, after) ==
  IF idx[r] < ndirs
  THEN /\ idx' = [idx EXCEPT ![r] = idx[r] + 1]
       /\ pc' = [pc EXCEPT ![r] = body]
  ELSE /\ idx' = [idx EXCEPT ![r] = 1]
       /\ pc' = [pc EXCEPT ![r] = after]

(* ------------------------------------------------------------------ *)
(* lock_dirs                                                            *)
(* ------------------------------------------------------------------ *)
Connect(r) ==
  /\ pc[r] = "lock_connect"
  /\ pc' = [pc EXCEPT ![r] = "lock_check"]
  /\ UNCHANGED <<fs, cfg, lists, depl, ending, idx, commit, dir_commit, todo, del, abort_why, message>>

\* FTP(...) or login() raises; lock_dirs catches it.
ConnectFails(r) ==
  /\ pc[r] = "lock_connect"
  /\ mode[idx[r]] = "FTP"
  /\ cannot_lock' = [cannot_lock EXCEPT ![r] = Append(@, idx[r])]
  /\ LoopNext(r, "lock_connect", "lock_end")
  /\ UNCHANGED <<fs, cfg, depl, ending, commit, dir_commit, todo, del, abort_why, message,
                 locked_dirs, already_locked_dirs, dirs_missing_commit>>

\* Directory.check_locked
IsLocked(t) == lockFile[t] # "none"

CheckLocked(r) ==
  /\ pc[r] = "lock_check"
  /\ IF IsLocked(idx[r])
     THEN /\ already_locked_dirs' = [already_locked_dirs EXCEPT ![r] = Append(@, idx[r])]
          /\ LoopNext(r, "lock_connect", "lock_end")
     ELSE /\ pc' = [pc EXCEPT ![r] = "lock_write"]
          /\ UNCHANGED <<idx, already_locked_dirs>>
  /\ UNCHANGED <<fs, cfg, depl, ending, commit, dir_commit, todo, del, abort_why, message,
                 locked_dirs, cannot_lock, dirs_missing_commit>>

\* Directory.lock, the write succeeds.
Lock(r) ==
  /\ pc[r] = "lock_write"
  /\ lockFile' = [lockFile EXCEPT ![idx[r]] = r]
  /\ locked_dirs' = [locked_dirs EXCEPT ![r] = Append(@, idx[r])]
  /\ LoopNext(r, "lock_connect", "lock_end")
  /\ UNCHANGED <<commitFile, files, cfg, depl, ending, commit, dir_commit, todo, del, abort_why, message,
                 already_locked_dirs, cannot_lock, dirs_missing_commit>>

\* Directory.lock, the write raises IOError (open() fails, or a socket
\* error on the FTP session): caught, lock() returns False.
LockIOError(r) ==
  /\ pc[r] = "lock_write"
  /\ cannot_lock' = [cannot_lock EXCEPT ![r] = Append(@, idx[r])]
  /\ LoopNext(r, "lock_connect", "lock_end")
  /\ UNCHANGED <<fs, cfg, depl, ending, commit, dir_commit, todo, del, abort_why, message,
                 locked_dirs, already_locked_dirs, dirs_missing_commit>>

\* Which exceptions of write_new_file the "except IOError" of lock() lets through.
LockLetsThrough(m) == m = "FTP"

\* Directory.lock, the FTP server refuses cwd or STOR: ftplib raises
\* error_perm, which is not an IOError, so it leaves lock() and lock_dirs.
LockFtpError(r) ==
  /\ pc[r] = "lock_write"
  /\ LockLetsThrough(mode[idx[r]])
  /\ Crash(r, "lock_raised")
  /\ UNCHANGED <<fs, cfg, lists, depl, idx, commit, dir_commit, todo, del, abort_why, message>>


\* A lock phase that only stops for targets it failed to lock.
LockGate_IgnoresLocked(already, cannot) == Len(cannot) > 0

\* The test at the end of lock_dirs: any target already locked, or any
\* target that could not be locked, aborts the run.
LockGate(already, cannot) == Len(already) > 0 \/ Len(cannot) > 0

\* target_dir.path
Path(t) == ToString(t)

\* list_dirs: one line per directory, carrying its path.
list_dirs(directories) == [i \in 1..Len(directories) |-> Path(directories[i])]

\* The message lock_dirs builds: the first of the two tests that is true
\* builds it and returns.
LockMessage(already, cannot) ==
  <<"Unable to lock the following target directories:">>
    \o list_dirs(IF Len(already) > 0 THEN already ELSE cannot)
    \o <<"Aborting.">>

\* End of lock_dirs and "if not locked_dirs: exit()".
LockEnd(r) ==
  /\ pc[r] = "lock_end"
  /\ IF LockGate(already_locked_dirs[r], cannot_lock[r])
     THEN /\ pc' = [pc EXCEPT ![r] = "abort"]
          /\ abort_why' = [abort_why EXCEPT ![r] = "lock_abort"]
          /\ message' = [message EXCEPT ![r] = LockMessage(already_locked_dirs[r], cannot_lock[r])]
          /\ UNCHANGED ending
     ELSE IF locked_dirs[r] = <<>>
     THEN /\ Exit(r, "lock_abort")
          /\ UNCHANGED <<abort_why, message>>
     ELSE /\ pc' = [pc EXCEPT ![r] = "open_repo"]
          /\ UNCHANGED <<abort_why, message, ending>>
  /\ UNCHANGED <<fs, cfg, lists, depl, idx, commit, dir_commit, todo, del>>

(* ------------------------------------------------------------------ *)
(* abort and Directory.abort                                            *)
(* ------------------------------------------------------------------ *)
\* An abort that cleans up every configured directory.
AbortList_AllDirs(r) == [i \in 1..ndirs |-> i]

\* The directories abort() cleans up.
AbortList(r) == locked_dirs[r]

\* One iteration of "for target_dir in directories: target_dir.abort()";
\* after the last one the message is printed and the caller calls exit().
\* handle.quit() changes nothing on the target and is left out.
Abort(r) ==
  /\ pc[r] = "abort"
  /\ IF idx[r] <= Len(AbortList(r))
     THEN /\ del' = [del EXCEPT ![r] = [t |-> AbortList(r)[idx[r]], f |-> LOCK_FILE, ret |-> "abort"]]
          /\ pc' = [pc EXCEPT ![r] = "del_check"]
          /\ UNCHANGED ending
     ELSE /\ Exit(r, abort_why[r])
          /\ UNCHANGED del
  /\ UNCHANGED <<fs, cfg, lists, depl, idx, commit, dir_commit, todo, abort_why, message>>

(* ------------------------------------------------------------------ *)
(* Directory.delete_file                                                *)
(* ------------------------------------------------------------------ *)
\* Control after delete_file returns to its caller.
Return(r) ==
  CASE del[r].ret = "abort" ->
         /\ idx' = [idx EXCEPT ![r] = idx[r] + 1]
         /\ pc' = [pc EXCEPT ![r] = "abort"]
         /\ UNCHANGED deploy_done
    [] del[r].ret = "diff" ->
         /\ pc' = [pc EXCEPT ![r] = "dep_apply"]
         /\ UNCHANGED <<idx, deploy_done>>
    [] del[r].ret = "unlock" ->
         /\ deploy_done' = [deploy_done EXCEPT ![r] = @ \cup {del[r].t}]
         /\ LoopNext(r, "dep_start", "done")

\* A delete_file that goes on whatever its test says.
DeleteGate_Always(t) == TRUE

\* A delete_file that never gets past its test.
DeleteGate_Never(t) == FALSE

\* "if self.check_locked():" at the top of delete_file.
DeleteGate(t) == IsLocked(t)

DeleteCheck(r) ==
  /\ pc[r] = "del_check"
  /\ IF DeleteGate(del[r].t)
     THEN /\ pc' = [pc EXCEPT ![r] = "del_remove"]
          /\ UNCHANGED <<idx, deploy_done, del>>
     ELSE /\ Return(r)
          /\ del' = [del EXCEPT ![r] = NoDel]
  /\ UNCHANGED <<fs, cfg, lists, ending, commit, dir_commit, todo, abort_why, message,
                 deploy_called, deploy_failed>>

FileExists(t, f) == IF f = LOCK_FILE THEN lockFile[t] # "none" ELSE files[t][f] # NoFile

\* The target without file f.
Removed(t, f) ==
  IF f = LOCK_FILE
  THEN /\ lockFile' = [lockFile EXCEPT ![t] = "none"]
       /\ UNCHANGED <<commitFile, files>>
  ELSE /\ files' = [files EXCEPT ![t][f] = NoFile]
       /\ UNCHANGED <<lockFile, commitFile>>

\* The removal itself: os.remove guarded by os.path.exists, or FTP DELE.
DeleteRemove(r) ==
  /\ pc[r] = "del_remove"
  /\ LET t == del[r].t
         f == del[r].f
     IN  /\ \/ FileExists(t, f) /\ Removed(t, f)
            \/ ~FileExists(t, f) /\ mode[t] = "LOCAL" /\ UNCHANGED fs
         /\ Return(r)
         /\ del' = [del EXCEPT ![r] = NoDel]
  /\ UNCHANGED <<cfg, lists, ending, commit, dir_commit, todo, abort_why, message,
                 deploy_called, deploy_failed>>

\* FTP DELE of a file that is not there: error_perm, caught by nobody.
DeleteMissingFtp(r) ==
  /\ pc[r] = "del_remove"
  /\ mode[del[r].t] = "FTP"
  /\ ~FileExists(del[r].t, del[r].f)
  /\ Crash(r, IF del[r].ret = "abort" THEN "abort_raised" ELSE "deploy_raised")
  /\ deploy_failed' = [deploy_failed EXCEPT ![r] =
                         IF del[r].ret = "abort" THEN @ ELSE @ \cup {del[r].t}]
  /\ UNCHANGED <<fs, cfg, lists, idx, commit, dir_commit, todo, del, abort_why, message,
                 deploy_called, deploy_done>>

\* os.remove or DELE of a file that is there raises inside deploy()
\* (permission, connection lost): the exception leaves deploy() and the
\* loop of __main__.
DeleteRemoveFails(r) ==
  /\ pc[r] = "del_remove"
  /\ del[r].ret \in {"diff", "unlock"}
  /\ FileExists(del[r].t, del[r].f)
  /\ Crash(r, "deploy_raised")
  /\ deploy_failed' = [deploy_failed EXCEPT ![r] = @ \cup {del[r].t}]
  /\ UNCHANGED <<fs, cfg, lists, idx, commit, dir_commit, todo, del, abort_why, message,
                 deploy_called, deploy_done>>

(* ------------------------------------------------------------------ *)
(* __main__ between the lock phase and the deploy loop                  *)
(* ------------------------------------------------------------------ *)
\* repo = Repo(config.path)
OpenRepo(r) ==
  /\ pc[r] = "open_repo"
  /\ pc' = [pc EXCEPT ![r] = "resolve"]
  /\ UNCHANGED <<fs, cfg, lists, depl, ending, idx, commit, dir_commit, todo, del, abort_why, message>>

\* Repo() raises InvalidGitRepositoryError / NoSuchPathError when
\* config.path holds no repository; nothing catches it.
OpenRepoFails(r) ==
  /\ pc[r] = "open_repo"
  /\ Crash(r, "no_repo")
  /\ UNCHANGED <<fs, cfg, lists, depl, idx, commit, dir_commit, todo, del, abort_why, message>>

\* The commit to deploy: repo.commit(commit_id) or repo.head.commit.
Desired(id) == IF id = NoneId THEN HEAD ELSE Resolve(id)

\* A run that validates the commit markers whatever its flags.
SkipsValidation_Never(h) == FALSE

\* "if not hard_deploy:" guards check_dirs_configured.
SkipsValidation(h) == h

\* Resolution of the desired commit, then the "h" flag test.
ResolveCommit(r) ==
  /\ pc[r] = "resolve"
  /\ IF Desired(commit_id[r]) = NoCommit
     THEN /\ Crash(r, "bad_rev")
          /\ UNCHANGED commit
     ELSE /\ commit' = [commit EXCEPT ![r] = Desired(commit_id[r])]
          /\ pc' = [pc EXCEPT ![r] = IF SkipsValidation(hard[r]) THEN "dep_start" ELSE "val_exists"]
          /\ UNCHANGED ending
  /\ UNCHANGED <<fs, cfg, lists, depl, idx, dir_commit, todo, del, abort_why, message>>

(* ------------------------------------------------------------------ *)
(* check_dirs_configured and Directory.check_valid_commit               *)
(* ------------------------------------------------------------------ *)
\* "if not self._check_file_exists(self.COMMIT_FILE): return False"
ValExists(r) ==
  /\ pc[r] = "val_exists"
  /\ IF commitFile[idx[r]] = Absent
     THEN /\ dirs_missing_commit' = [dirs_missing_commit EXCEPT ![r] = Append(@, idx[r])]
          /\ LoopNext(r, "val_exists", "val_end")
     ELSE /\ pc' = [pc EXCEPT ![r] = "val_read"]
          /\ UNCHANGED <<idx, dirs_missing_commit>>
  /\ UNCHANGED <<fs, cfg, depl, ending, commit, dir_commit, todo, del, abort_why, message,
                 locked_dirs, already_locked_dirs, cannot_lock>>

\* _read_root_dir_file_contents(COMMIT_FILE)
ReadCommitFile(t) == StripLast(commitFile[t])

\* "self.commit = repo.commit(commit_id)": a resolvable marker is cached
\* and the check returns True; an unresolvable one raises out of
\* check_valid_commit, check_dirs_configured and __main__.
ValRead(r) ==
  /\ pc[r] = "val_read"
  /\ LET c == Resolve(ReadCommitFile(idx[r]))
     IN  IF c = NoCommit
         THEN /\ Crash(r, "validate_raised")
              /\ UNCHANGED <<idx, dir_commit>>
         ELSE /\ dir_commit' = [dir_commit EXCEPT ![r][idx[r]] = c]
              /\ LoopNext(r, "val_exists", "val_end")
              /\ UNCHANGED ending
  /\ UNCHANGED <<fs, cfg, lists, depl, commit, todo, del, abort_why, message>>

\* "if len(dirs_missing_commit) > 0: ... return abort(locked_dirs, message)"
ValEnd(r) ==
  /\ pc[r] = "val_end"
  /\ IF Len(dirs_missing_commit[r]) > 0
     THEN /\ pc' = [pc EXCEPT ![r] = "abort"]
          /\ abort_why' = [abort_why EXCEPT ![r] = "validate_abort"]
          /\ message' = [message EXCEPT ![r] =
                           <<"Invalid / missing commit information for the following directories:">>
                             \o list_dirs(dirs_missing_commit[r]) \o <<"Aborting.">>]
     ELSE /\ pc' = [pc EXCEPT ![r] = "dep_start"]
          /\ UNCHANGED <<abort_why, message>>
  /\ UNCHANGED <<fs, cfg, lists, depl, ending, idx, commit, dir_commit, todo, del>>

(* ------------------------------------------------------------------ *)
(* Directory.deploy, deploy_diff, deploy_tree                           *)
(* ------------------------------------------------------------------ *)
\* What deploy() applies: the diff from the cached commit if there is
\* one, the listing of the checkout otherwise.
DeployPlan(base, c) == IF base # NoCommit THEN Diff(base, c) ELSE TreeEntries

\* Entry of target_dir.deploy(commit, config) for the next config.dirs item.
DeployStart(r) ==
  /\ pc[r] = "dep_start"
  /\ deploy_called' = [deploy_called EXCEPT ![r] = @ \cup {idx[r]}]
  /\ todo' = [todo EXCEPT ![r] = DeployPlan(dir_commit[r][idx[r]], commit[r])]
  /\ pc' = [pc EXCEPT ![r] = "dep_apply"]
  /\ UNCHANGED <<fs, cfg, lists, ending, idx, commit, dir_commit, del, abort_why, message,
                 deploy_done, deploy_failed>>

\* "if item.deleted_file: self.delete_file(str(item.a_path))"
DeployDelete(r) ==
  /\ pc[r] = "dep_apply"
  /\ \E e \in todo[r] :
       /\ e.kind = "D"
       /\ todo' = [todo EXCEPT ![r] = @ \ {e}]
       /\ del' = [del EXCEPT ![r] = [t |-> idx[r], f |-> e.a, ret |-> "diff"]]
  /\ pc' = [pc EXCEPT ![r] = "del_check"]
  /\ UNCHANGED <<fs, cfg, lists, depl, ending, idx, commit, dir_commit, abort_why, message>>

\* rename_file: "pass" on a plain directory, RNFR/RNTO over FTP (error_perm
\* when the old name is not there).
DeployRename(r) ==
  /\ pc[r] = "dep_apply"
  /\ \E e \in todo[r] :
       /\ e.kind = "R"
       /\ LET t == idx[r] IN
          IF mode[t] = "LOCAL"
          THEN /\ todo' = [todo EXCEPT ![r] = @ \ {e}]
               /\ UNCHANGED <<fs, pc, ending, deploy_failed>>
          ELSE IF files[t][e.a] # NoFile
          THEN /\ todo' = [todo EXCEPT ![r] = @ \ {e}]
               /\ files' = [files EXCEPT ![t][e.b] = files[t][e.a], ![t][e.a] = NoFile]
               /\ UNCHANGED <<lockFile, commitFile, pc, ending, deploy_failed>>
          ELSE /\ Crash(r, "deploy_raised")
               /\ deploy_failed' = [deploy_failed EXCEPT ![r] = @ \cup {t}]
               /\ UNCHANGED <<fs, todo>>
  /\ UNCHANGED <<cfg, lists, idx, commit, dir_commit, del, abort_why, message,
                 deploy_called, deploy_done>>

\* A copy that leaves the destination empty.
CopiedContents_Empty(p) == Truncated

\* What copy_file leaves at the destination: the bytes of the source file.
CopiedContents(p) == WorkTree[p]

\* copy_file(path, os.path.join(config.path, path)): the bytes come from the
\* checkout.  When the checkout has no such file, open(source) raises
\* IOError: before anything is sent over FTP, but after the local
\* destination was opened for writing (and so truncated).
DeployCopy(r) ==
  /\ pc[r] = "dep_apply"
  /\ \E e \in todo[r] :
       /\ e.kind = "C"
       /\ LET t == idx[r] IN
          IF WorkTree[e.a] # NoFile
          THEN /\ todo' = [todo EXCEPT ![r] = @ \ {e}]
               /\ files' = [files EXCEPT ![t][e.a] = CopiedContents(e.a)]
               /\ UNCHANGED <<pc, ending, deploy_failed>>
          ELSE /\ Crash(r, "deploy_raised")
               /\ deploy_failed' = [deploy_failed EXCEPT ![r] = @ \cup {t}]
               /\ files' = IF mode[t] = "LOCAL"
                           THEN [files EXCEPT ![t][e.a] = Truncated]
                           ELSE files
               /\ UNCHANGED todo
  /\ UNCHANGED <<lockFile, commitFile, cfg, lists, idx, commit, dir_commit, del, abort_why, message,
                 deploy_called, deploy_done>>

\* A transport call of deploy() raises (disk full, permission, connection
\* lost): the exception leaves deploy() and the loop of __main__.
DeployOpFails(r) ==
  /\ pc[r] = "dep_apply"
  /\ Crash(r, "deploy_raised")
  /\ deploy_failed' = [deploy_failed EXCEPT ![r] = @ \cup {idx[r]}]
  /\ UNCHANGED <<fs, cfg, lists, idx, commit, dir_commit, todo, del, abort_why, message,
                 deploy_called, deploy_done>>

\* A deploy that ends the marker with a newline.
CommitMarkerContents_Newline(c) == Hex(c) \o <<NL>>

\* What deploy() writes into .git_commit.
CommitMarkerContents(c) == Hex(c)

\* A deploy that may write the marker with entries still to apply.
AllApplied_Early(r) == TRUE

\* deploy() reaches the marker write when deploy_diff / deploy_tree has
\* returned, that is when its loop has run out of entries.
AllApplied(r) == todo[r] = {}

\* "self.write_new_file(self.COMMIT_FILE, commit.hexsha)" once every entry
\* is applied, then "self.delete_file(self.LOCK_FILE)".
WriteCommit(r) ==
  /\ pc[r] = "dep_apply"
  /\ AllApplied(r)
  /\ commitFile' = [commitFile EXCEPT ![idx[r]] = CommitMarkerContents(commit[r])]
  /\ del' = [del EXCEPT ![r] = [t |-> idx[r], f |-> LOCK_FILE, ret |-> "unlock"]]
  /\ pc' = [pc EXCEPT ![r] = "del_check"]
  /\ UNCHANGED <<lockFile, files, cfg, lists, depl, ending, idx, commit, dir_commit, todo,
                 abort_why, message>>

\* print ("Done"), end of script.
Done(r) ==
  /\ pc[r] = "done"
  /\ Exit(r, "done")
  /\ UNCHANGED <<fs, cfg, lists, depl, idx, commit, dir_commit, todo, del, abort_why, message>>

(* ------------------------------------------------------------------ *)
(* Specifications                                                       *)
(* ------------------------------------------------------------------ *)
Next ==
  \E r \in Runs :
    \/ Connect(r)
    \/ ConnectFails(r)
    \/ CheckLocked(r)
    \/ Lock(r)
    \/ LockIOError(r)
    \/ LockFtpError(r)
    \/ LockEnd(r)
    \/ Abort(r)
    \/ DeleteCheck(r)
    \/ DeleteRemove(r)
    \/ DeleteMissingFtp(r)
    \/ DeleteRemoveFails(r)
    \/ OpenRepo(r)
    \/ OpenRepoFails(r)
    \/ ResolveCommit(r)
    \/ ValExists(r)
    \/ ValRead(r)
    \/ ValEnd(r)
    \/ DeployStart(r)
    \/ DeployDelete(r)
    \/ DeployRename(r)
    \/ DeployCopy(r)
    \/ DeployOpFails(r)
    \/ WriteCommit(r)
    \/ Done(r)

\* One orchestrator run over the configured targets.
Spec == Init /\ [][Next]_vars

\* Two orchestrator runs started on the same configuration and targets:
\* each target is either fresh or deployed at R1, and one deployed at R1
\* may be held locked by somebody else.
Init2 ==
  /\ InitTargets(NumShared, {pr \in Profiles : pr.commit \in {Absent, Hex(R1) \o <<NL>>}},
                 {"none", "pre"})
  /\ \A t \in Targets : lockFile[t] = "pre" => commitFile[t] = Hex(R1) \o <<NL>>
  /\ hard \in [Runs -> BOOLEAN]
  /\ commit_id = [r \in Runs |-> NoneId]
  /\ InitRun(Runs)

Spec2 == Init2 /\ [][Next]_vars

\* The files of a target that held f once every entry of diff d has been
\* applied over transport m: deleted paths are gone, every other entry
\* but a rename holds the bytes of the checkout, and a rename moved the
\* file over FTP and did nothing on a plain directory.
DiffApplied(f, d, m) ==
  [p \in Paths |->
     IF \E e \in d : e.kind = "D" /\ e.a = p THEN NoFile
     ELSE IF \E e \in d : e.kind = "C" /\ e.a = p THEN WorkTree[p]
     ELSE IF m = "FTP" /\ \E e \in d : e.kind = "R" /\ e.a = p /\ f[e.a] # NoFile THEN NoFile
     ELSE IF m = "FTP" /\ \E e \in d : e.kind = "R" /\ e.b = p /\ f[e.a] # NoFile
          THEN f[(CHOOSE e \in d : e.kind = "R" /\ e.b = p).a]
     ELSE f[p]]

\* One run that deploys HEAD on targets marked R1: each of them either
\* holds the files of R1, or holds what an earlier deploy of the same diff
\* left there (a deploy that applied every entry and then failed to write
\* the commit marker, after which the lock marker was removed by hand).
InitDiff ==
  /\ ndirs = NumShared
  /\ \E m \in {"LOCAL", "FTP"} : mode = [t \in Targets |-> IF t <= NumShared THEN m ELSE "LOCAL"]
  /\ lockFile = [t \in Targets |-> "none"]
  /\ commitFile = [t \in Targets |-> IF t <= NumShared THEN Hex(R1) \o <<NL>> ELSE Absent]
  /\ \E again \in SUBSET (1..NumShared) :
       files = [t \in Targets |->
                  IF t > NumShared THEN EmptyDir
                  ELSE IF t \in again THEN DiffApplied(TreeOf(R1), Diff(R1, HEAD), mode[t])
                  ELSE TreeOf(R1)]
  /\ initial = [lock |-> lockFile, commit |-> commitFile, files |-> files]
  /\ hard = [r \in Runs |-> FALSE]
  /\ commit_id = [r \in Runs |-> NoneId]
  /\ InitRun({"p1"})

SpecDiff == InitDiff /\ [][Next]_vars
(* ------------------------------------------------------------------ *)
(* Properties                                                           *)
(* ------------------------------------------------------------------ *)
Ended(r) == pc[r] = "ended"
Range(q) == {q[i] : i \in 1..Len(q)}
\* No lock marker written by run r is left.
NoLockOf(r) == \A t \in Dirs : lockFile[t] # r
\* Nothing but lock markers has changed on any target.
ContentUntouched == files = initial.files /\ commitFile = initial.commit
\* Run r got as far as check_dirs_configured.
ValidationBegan(r) == ~hard[r] /\ commit[r] # NoCommit
\* Run r is inside deploy() of target t.
InDeploy(r, t) ==
  /\ idx[r] = t
  /\ \/ pc[r] = "dep_apply"
     \/ pc[r] \in {"del_check", "del_remove"} /\ del[r].ret \in {"diff", "unlock"}

\* C1: when deploy() has returned on every target and the run has ended,
\* every target's .git_commit holds exactly the hex id of the desired
\* commit and no target has a .git_lock.
C1_SuccessfulRun ==
  \A r \in active :
    (Ended(r) /\ deploy_done[r] = Dirs) =>
      \A t \in Dirs : commitFile[t] = Hex(commit[r]) /\ lockFile[t] = "none"

\* A finished run that deployed everywhere and replaced a different marker.
C1_Witness ==
  /\ Ended("p1")
  /\ deploy_done["p1"] = Dirs
  /\ \E t \in Dirs : initial.commit[t] \notin {Absent, Hex(commit["p1"])}

\* C2: a run that found some target already locked ends with no deployed
\* file and no commit marker changed, with none of its own lock markers
\* left, and with the lock markers it found still in place.
C2_AlreadyLockedRollback ==
  \A r \in active :
    (Ended(r) /\ Len(already_locked_dirs[r]) > 0) =>
      /\ ContentUntouched
      /\ NoLockOf(r)
      /\ \A t \in Range(already_locked_dirs[r]) : lockFile[t] = initial.lock[t]

\* C3: a run in which some target could not be locked (connect failed, or
\* writing the lock marker failed) ends through the lock-phase abort, not
\* through an exception of lock(), with none of its lock markers left and
\* without having called deploy().
C3_CannotLockAborts ==
  \A r \in active :
    (Ended(r) /\ (Len(cannot_lock[r]) > 0 \/ outcome[r] = "lock_raised")) =>
      /\ outcome[r] = "lock_abort"
      /\ NoLockOf(r)
      /\ deploy_called[r] = {}

\* C4: without hard deploy, a run that reached validation while some
\* target has no commit marker ends through the validation abort: deploy()
\* was called on no target, none of its lock markers is left, and no file
\* or commit marker changed.
C4_MissingMarkerAborts ==
  \A r \in active :
    (Ended(r) /\ ValidationBegan(r) /\ \E t \in Dirs : commitFile[t] = Absent) =>
      /\ outcome[r] = "validate_abort"
      /\ deploy_called[r] = {}
      /\ NoLockOf(r)
      /\ ContentUntouched

\* C5: without hard deploy, a run that reached validation while some
\* target's commit marker holds an id that cannot be resolved ends through
\* the validation abort (check_valid_commit returned False, it did not
\* raise), with none of its lock markers left and no deploy.
C5_GarbledMarkerAborts ==
  \A r \in active :
    (/\ Ended(r)
     /\ ValidationBegan(r)
     /\ \E t \in Dirs : /\ commitFile[t] # Absent
                           /\ Resolve(ReadCommitFile(t)) = NoCommit) =>
      /\ outcome[r] = "validate_abort"
      /\ NoLockOf(r)
      /\ deploy_called[r] = {}

\* C6: a run whose desired revision id cannot be resolved never writes or
\* removes a lock marker, a commit marker or a deployed file.
C6_ResolveBeforeLock ==
  \A r \in active :
    Desired(commit_id[r]) = NoCommit =>
      lockFile = initial.lock /\ ContentUntouched

\* C7: when a run has ended and deploy() raised on one target, deploy()
\* was still called on every other target, and each of those ends with
\* its commit marker at the desired commit and without lock marker.
C7_DeployFailureIsolated ==
  \A r \in active :
    (Ended(r) /\ deploy_failed[r] # {}) =>
      \A t \in Dirs \ deploy_failed[r] :
        /\ t \in deploy_called[r]
        /\ commitFile[t] = Hex(commit[r])
        /\ lockFile[t] = "none"

\* C8 as stated: two interleaved runs are never both inside deploy() of
\* the same target.
C8_MutualExclusion ==
  \A t \in Dirs : ~(InDeploy("p1", t) /\ InDeploy("p2", t))

\* C8 as amended: a run whose lock phase found a lock marker on a target
\* never calls deploy() on any target.
C8_NoDeployAfterSeeingLock ==
  \A r \in active : Len(already_locked_dirs[r]) > 0 => deploy_called[r] = {}

\* Run p1 found the marker p2 wrote, gave up, and p2 went on to deploy there.
C8_Witness ==
  /\ Ended("p1")
  /\ \E t \in Range(already_locked_dirs["p1"]) : t \in deploy_called["p2"]

\* C9: under hard deploy, a target that had no commit marker and whose
\* deploy() returned holds every file listed at the desired commit.
C9_HardDeployFullTree ==
  \A r \in active : \A t \in Dirs :
    (hard[r] /\ initial.commit[t] = Absent /\ t \in deploy_done[r]) =>
      \A p \in Paths : TreeOf(commit[r])[p] # NoFile => files[t][p] # NoFile

\* C10: a run that ended with exit status 0 deployed to every target.
C10_ExitStatus ==
  \A r \in active :
    (Ended(r) /\ status[r] = 0) => deploy_done[r] = Dirs

\* C11: once deploy() has returned on a target, reading its .git_commit
\* back gives exactly the hex id that deploy wrote, and resolving what was
\* read gives the commit that was deployed.
C11_MarkerRoundTrip ==
  \A r \in active : \A t \in deploy_done[r] :
    /\ ReadCommitFile(t) = Hex(commit[r])
    /\ Resolve(ReadCommitFile(t)) = commit[r]

\* C12: the files a diff deploy leaves on a target depend only on the
\* files it found and on the diff, not on the order the entries were
\* applied in; and on a target that already holds the result of the diff,
\* applying the same diff again changes no file, however far it gets.
C12_DiffOrderAndRepeat ==
  \A r \in active : \A t \in Dirs :
    dir_commit[r][t] # NoCommit =>
      LET d == Diff(dir_commit[r][t], commit[r])
          result == DiffApplied(initial.files[t], d, mode[t])
      IN  /\ t \in deploy_done[r] => files[t] = result
          /\ initial.files[t] = result => files[t] = initial.files[t]

\* The same non-empty diff was deployed on a target holding the files of
\* R1 and on a target that already held its result.
C12_Witness ==
  \E t \in deploy_done["p1"] : \E u \in deploy_done["p1"] :
    /\ Diff(dir_commit["p1"][t], commit["p1"]) # {}
    /\ initial.files[t] = TreeOf(R1)
    /\ initial.files[u] = DiffApplied(TreeOf(R1), Diff(R1, HEAD), mode[u])

\* C13: on a target whose commit marker resolved to a commit and whose
\* files were those of that commit, a deploy that returned leaves every
\* deleted path absent, every added or modified path with the bytes of
\* the source tree, every path the diff does not name as it was, and the
\* commit marker at the hex id of the desired commit.
C13_IncrementalDeploy ==
  \A r \in active : \A t \in deploy_done[r] :
    LET base == dir_commit[r][t]
        d == Diff(base, commit[r])
    IN  (base # NoCommit /\ initial.files[t] = TreeOf(base)) =>
          /\ \A e \in d : e.kind = "D" => files[t][e.a] = NoFile
          /\ \A e \in d : e.kind = "C" => files[t][e.a] = WorkTree[e.a]
          /\ \A p \in Paths \ ({e.a : e \in d} \cup {e.b : e \in d}) :
               files[t][p] = initial.files[t][p]
          /\ commitFile[t] = Hex(commit[r])

\* A target at R1 was brought to R2 by a diff with a deletion and a
\* modification.
C13_Witness ==
  \E t \in deploy_done["p1"] :
    /\ dir_commit["p1"][t] = R1
    /\ commit["p1"] = R2
    /\ initial.files[t] = TreeOf(R1)
    /\ \E e \in Diff(R1, R2) : e.kind = "D"
    /\ \E e \in Diff(R1, R2) : e.kind = "C"

\* C14: delete_file of a file other than the lock marker that is not on
\* the target raises, on either transport: a deploy never gets past a
\* deleted entry of its diff whose file the target did not have.
C14_DeleteMissingRaises ==
  \A r \in active :
    LET t == idx[r]
        d == Diff(dir_commit[r][t], commit[r])
    IN  (pc[r] = "dep_apply" /\ dir_commit[r][t] # NoCommit) =>
          \A e \in d \ todo[r] : e.kind = "D" => initial.files[t][e.a] # NoFile

\* The order inside one deploy(): a commit marker that changed while the
\* deploy is running means no entry is left to apply, and a target on
\* which deploy() was entered and that has no lock marker holds the hex
\* id of the desired commit.
DeployOrder(r, t) ==
  /\ (InDeploy(r, t) /\ commitFile[t] # initial.commit[t]) => todo[r] = {}
  /\ (t \in deploy_called[r] /\ lockFile[t] = "none") => commitFile[t] = Hex(commit[r])

C16_LockLeftIffDeployFailed ==
  \A r \in active :
    Ended(r) => \A t \in Dirs : lockFile[t] = r <=> t \in deploy_failed[r]

\* C17: when a run ended through the abort of the lock phase, the message
\* it printed names every target that was found locked and every target
\* that could not be locked, and no other target.
C17_LockAbortNamesAll ==
  \A r \in active :
    (Ended(r) /\ outcome[r] = "lock_abort") =>
      {t \in Dirs : Path(t) \in Range(message[r])}
        = Range(already_locked_dirs[r]) \cup Range(cannot_lock[r])

\* Run o wrote a lock marker on target t and still counts on it: it has
\* not ended, has not begun to abort, and its deploy of t has not returned.
Relies(o, t) ==
  /\ t \in Range(locked_dirs[o])
  /\ ~Ended(o)
  /\ abort_why[o] = ""
  /\ t \notin deploy_done[o]

\* The removal step of a delete_file that run r called on target t.
Removes(r, t) == pc[r] = "del_remove" /\ del[r].t = t /\ pc'[r] # pc[r]

\* C18 as stated: a lock marker that was there before the runs is never
\* removed, and the abort of one run never removes a lock marker that the
\* other run wrote and still relies on.
C18_RemovesOnlyOwn ==
  [][\A t \in Dirs :
       /\ lockFile[t] = "pre" => lockFile'[t] = "pre"
       /\ \A r \in active : \A o \in active \ {r} :
            (Removes(r, t) /\ del[r].ret = "abort" /\ lockFile[t] = o /\ Relies(o, t))
              => lockFile'[t] = o]_vars

\* C18 as amended: a lock marker that was there before the runs is never
\* removed, and a lock marker disappears only in a delete_file of a run
\* that wrote a lock marker on that target itself.
C18_RemovesWhereItLocked ==
  [][\A t \in Dirs :
       /\ lockFile[t] = "pre" => lockFile'[t] = "pre"
       /\ (lockFile[t] # "none" /\ lockFile'[t] = "none")
            => \E r \in active : Removes(r, t) /\ t \in Range(locked_dirs[r])]_vars

\* A run ended through the lock-phase abort after removing the marker of a
\* target it had locked, and the marker somebody else held is still there.
C18_Witness ==
  \E r \in active :
    /\ Ended(r)
    /\ outcome[r] = "lock_abort"
    /\ \E t \in Range(locked_dirs[r]) : lockFile[t] = "none"
    /\ \E u \in Dirs : initial.lock[u] = "pre" /\ lockFile[u] = "pre"

\* C19: a hard deploy caches no commit for any target, so every deploy()
\* of the run is a full-tree deploy, and it removes no file: every file a
\* target had is still there, a file the tree does not list is as it was,
\* and once deploy() returned every listed file holds the bytes of the
\* checkout.
C19_FullTreeRemovesNothing ==
  \A r \in active : hard[r] =>
    \A t \in Dirs :
      /\ dir_commit[r][t] = NoCommit
      /\ \A p \in Paths : initial.files[t][p] # NoFile => files[t][p] # NoFile
      /\ \A p \in Paths \ LsFiles : files[t][p] = initial.files[t][p]
      /\ t \in deploy_done[r] => \A p \in LsFiles : files[t][p] = WorkTree[p]

\* A hard deploy of R2 returned on a target validly marked R1: the files
\* the diff from R1 would have deleted or renamed are still there.
C19_Witness ==
  /\ hard["p1"]
  /\ commit["p1"] = R2
  /\ \E t \in deploy_done["p1"] :
       /\ Resolve(StripLast(initial.commit[t])) = R1
       /\ \E e \in Diff(R1, R2) : e.kind = "D" /\ files[t][e.a] # NoFile

\* C20: a delete_file that finds no lock marker on its target returns to
\* its caller at once: no file and no marker of any target changes, and
\* the run does not end.
C20_DeleteGatedOnLock ==
  [][\A r \in active :
       (pc[r] = "del_check" /\ ~IsLocked(del[r].t) /\ pc'[r] # pc[r]) =>
         /\ fs' = fs
         /\ del'[r] = NoDel
         /\ pc'[r] # "ended"
         /\ status'[r] = status[r]]_vars

\* A diff deploy from R1 to R2 returned with the new commit marker
\* written although the file its diff records as deleted is still there:
\* the other run had removed the lock marker before the entry was applied.
C20_Witness ==
  \E r \in active : \E t \in deploy_done[r] :
    /\ dir_commit[r][t] = R1
    /\ commit[r] = R2
    /\ commitFile[t] = Hex(R2)
    /\ \E e \in Diff(R1, R2) : e.kind = "D" /\ files[t][e.a] # NoFile
====
